---- MODULE Spec2Model ----
(***************************************************************************)
(* Model of the two programs of the repository:                            *)
(*   peq-gain.py : parses a PEQ file into a band list, designs one biquad  *)
(*                 per band, cascades the responses on a frequency grid    *)
(*                 and derives the gain-staging values;                    *)
(*   peqwire.py  : parses a PEQ file into the list of control nodes of a   *)
(*                 32-band parametric equalizer plugin.                    *)
(* One behaviour is one run of one of the two programs on one input file.  *)
(* The file is read a line at a time; `file` records the lines consumed.   *)
(*                                                                         *)
(* Numbers.  A float is modelled as a pair <<n, d>>: the exact rational    *)
(* n/d in lowest terms when d > 0, and the IEEE special values when d = 0: *)
(* <<1,0>> = +inf, <<-1,0>> = -inf, <<0,0>> = NaN.  numpy float64 division *)
(* by zero yields inf or NaN (with a warning) and does not raise.          *)
(* Arithmetic on the pairs is exact: the rounding of float64 is left out,  *)
(* so a value that is 0 here may be of the order of 1e-16 in a run (the    *)
(* cosine of 3*pi/2, for instance); sin(3*pi/2) is -1.0 in both.           *)
(***************************************************************************)
EXTENDS Integers, Sequences, FiniteSets, TLC

----------------------------------------------------------------------------
(* Float arithmetic *)

Abs(i) == IF i < 0 THEN -i ELSE i

Sign(i) == IF i < 0 THEN -1 ELSE IF i > 0 THEN 1 ELSE 0

RECURSIVE GCD(_, _)
GCD(a, b) == IF b = 0 THEN a ELSE GCD(b, a % b)

Norm(n, d) ==
    IF d = 0 THEN <<Sign(n), 0>>
    ELSE LET g == GCD(Abs(n), Abs(d))
             s == Sign(d)
         IN  <<(s * n) \div g, (s * d) \div g>>

R(n, d) == Norm(n, d)
Zero == <<0, 1>>
One  == <<1, 1>>
Two  == <<2, 1>>
NaN    == <<0, 0>>
PosInf == <<1, 0>>
NegInf == <<-1, 0>>

IsNaN(x)    == x = NaN
IsFinite(x) == x[2] # 0

Neg(x) == <<-x[1], x[2]>>

Add(x, y) ==
    IF IsNaN(x) \/ IsNaN(y) THEN NaN
    ELSE IF ~IsFinite(x) /\ ~IsFinite(y) THEN (IF x = y THEN x ELSE NaN)
    ELSE IF ~IsFinite(x) THEN x
    ELSE IF ~IsFinite(y) THEN y
    ELSE LET g == GCD(x[2], y[2])
         IN  Norm(x[1] * (y[2] \div g) + y[1] * (x[2] \div g), (x[2] \div g) * y[2])

Sub(x, y) == Add(x, Neg(y))

Mul(x, y) ==
    IF ~IsFinite(x) \/ ~IsFinite(y) THEN <<Sign(x[1]) * Sign(y[1]), 0>>
    ELSE IF x[1] = 0 \/ y[1] = 0 THEN <<0, 1>>
    ELSE LET g == GCD(Abs(x[1]), y[2])
             h == GCD(Abs(y[1]), x[2])
         IN  Norm((x[1] \div g) * (y[1] \div h), (x[2] \div h) * (y[2] \div g))

\* 1/x: 1/0 = +inf, 1/inf = 0, 1/NaN = NaN
Inv(x) == Norm(Sign(x[1]) * x[2] + (IF x[1] = 0 /\ x[2] # 0 THEN 1 ELSE 0), Abs(x[1]))

Div(x, y) == Mul(x, Inv(y))

\* x < y in IEEE: false as soon as one side is NaN
Lt(x, y) ==
    IF IsNaN(x) \/ IsNaN(y) THEN FALSE
    ELSE IF ~IsFinite(x) THEN x = NegInf /\ y # NegInf
    ELSE IF ~IsFinite(y) THEN y = PosInf
    ELSE x[1] * y[2] < y[1] * x[2]

Le(x, y) == ~IsNaN(x) /\ ~IsNaN(y) /\ ~Lt(y, x)

FAbs(x) == <<Abs(x[1]), x[2]>>

\* integer square root
ISqrt(n) == CHOOSE r \in 0..n : r * r <= n /\ (r + 1) * (r + 1) > n

SqrtScale == 1000

\* np.sqrt: NaN for a negative argument; exact on a ratio of squares,
\* otherwise rounded down to 1/SqrtScale
Sqrt(x) ==
    IF IsNaN(x) \/ x = NegInf THEN NaN
    ELSE IF x = PosInf THEN PosInf
    ELSE IF x[1] < 0 THEN NaN
    ELSE LET rn == ISqrt(x[1])
             rd == ISqrt(x[2])
         IN  IF rn * rn = x[1] /\ rd * rd = x[2] THEN Norm(rn, rd)
             ELSE Norm(ISqrt((x[1] * SqrtScale * SqrtScale) \div x[2]), SqrtScale)

----------------------------------------------------------------------------
(* Transcendental functions, tabulated on the arguments the inputs below   *)
(* produce (values rounded to four significant digits).                    *)

fs == 48000

\* an angle w = 2*pi*t is carried as the fraction t of a full turn
Turn(f, rate) == Div(f, R(rate, 1))

NpSin(t) ==
    CASE t = R(0, 1)         -> R(0, 1)
      [] t = R(1, 4)         -> R(1, 1)
      [] t = R(1, 2)         -> R(0, 1)
      [] t = R(3, 4)         -> R(-1, 1)
      [] t = R(1229, 12000)  -> R(3, 5)
      [] t = R(-1, 4)        -> R(-1, 1)

NpCos(t) ==
    CASE t = R(0, 1)         -> R(1, 1)
      [] t = R(1, 4)         -> R(0, 1)
      [] t = R(1, 2)         -> R(-1, 1)
      [] t = R(3, 4)         -> R(0, 1)
      [] t = R(1229, 12000)  -> R(4, 5)
      [] t = R(-1, 4)        -> R(0, 1)

\* 10 ** x
Pow10(x) ==
    CASE x = R(0, 1)       -> R(1, 1)
      [] x = R(301, 500)   -> R(4, 1)
      [] x = R(-301, 500)  -> R(1, 4)
      [] x = R(301, 250)   -> R(16, 1)
      [] x = R(-301, 250)  -> R(1, 16)
      [] x = R(-11, 40)    -> R(5309, 10000)
      [] x = R(301, 1000)  -> R(2, 1)

----------------------------------------------------------------------------
(* Filter Coefficient Designer (peq-gain.py) *)

\* b = [b0/a0, b1/a0, b2/a0], a = [1, a1/a0, a2/a0]; a0 is kept beside the
\* result so that the value divided by can be observed
Normalize(b0, b1, b2, a0, a1, a2) ==
    [a0 |-> a0,
     b  |-> <<Div(b0, a0), Div(b1, a0), Div(b2, a0)>>,
     a  |-> <<One, Div(a1, a0), Div(a2, a0)>>]

peaking_eq(fc, gain_db, Q, rate) ==
    LET A     == Pow10(Div(gain_db, R(40, 1)))
        w0    == Turn(fc, rate)
        alpha == Div(NpSin(w0), Mul(Two, Q))
        b0 == Add(One, Mul(alpha, A))
        b1 == Mul(R(-2, 1), NpCos(w0))
        b2 == Sub(One, Mul(alpha, A))
        a0 == Add(One, Div(alpha, A))
        a1 == Mul(R(-2, 1), NpCos(w0))
        a2 == Sub(One, Div(alpha, A))
    IN  Normalize(b0, b1, b2, a0, a1, a2)

ShelfAlpha(A, sn, Q) ==
    Mul(Div(sn, Two),
        Sqrt(Add(Mul(Add(A, Div(One, A)), Sub(Div(One, Q), One)), Two)))

low_shelf_eq(fc, gain_db, Q, rate) ==
    LET A     == Pow10(Div(gain_db, R(40, 1)))
        w0    == Turn(fc, rate)
        sn    == NpSin(w0)
        cs    == NpCos(w0)
        alpha == ShelfAlpha(A, sn, Q)
        beta  == Mul(Mul(Two, Sqrt(A)), alpha)
        Ap1   == Add(A, One)
        Am1   == Sub(A, One)
        b0 == Mul(A, Add(Sub(Ap1, Mul(Am1, cs)), beta))
        b1 == Mul(Mul(Two, A), Sub(Am1, Mul(Ap1, cs)))
        b2 == Mul(A, Sub(Sub(Ap1, Mul(Am1, cs)), beta))
        a0 == Add(Add(Ap1, Mul(Am1, cs)), beta)
        a1 == Mul(R(-2, 1), Add(Am1, Mul(Ap1, cs)))
        a2 == Sub(Add(Ap1, Mul(Am1, cs)), beta)
    IN  Normalize(b0, b1, b2, a0, a1, a2)

high_shelf_eq(fc, gain_db, Q, rate) ==
    LET A     == Pow10(Div(gain_db, R(40, 1)))
        w0    == Turn(fc, rate)
        sn    == NpSin(w0)
        cs    == NpCos(w0)
        alpha == ShelfAlpha(A, sn, Q)
        beta  == Mul(Mul(Two, Sqrt(A)), alpha)
        Ap1   == Add(A, One)
        Am1   == Sub(A, One)
        b0 == Mul(A, Add(Add(Ap1, Mul(Am1, cs)), beta))
        b1 == Mul(Mul(R(-2, 1), A), Add(Am1, Mul(Ap1, cs)))
        b2 == Mul(A, Sub(Add(Ap1, Mul(Am1, cs)), beta))
        a0 == Add(Sub(Ap1, Mul(Am1, cs)), beta)
        a1 == Mul(Two, Sub(Am1, Mul(Ap1, cs)))
        a2 == Sub(Sub(Ap1, Mul(Am1, cs)), beta)
    IN  Normalize(b0, b1, b2, a0, a1, a2)

\* the dispatch of the cascade loop
Design(band) ==
    CASE band.ftype = "peaking"    -> peaking_eq(band.fc, band.gain_db, band.Q, fs)
      [] band.ftype = "low_shelf"  -> low_shelf_eq(band.fc, band.gain_db, band.Q, fs)
      [] band.ftype = "high_shelf" -> high_shelf_eq(band.fc, band.gain_db, band.Q, fs)

----------------------------------------------------------------------------
(* Frequency Response Evaluator: scipy.signal.freqz(b, a, worN=w) *)

CAdd(x, y) == <<Add(x[1], y[1]), Add(x[2], y[2])>>
CMul(x, y) == <<Sub(Mul(x[1], y[1]), Mul(x[2], y[2])),
                Add(Mul(x[1], y[2]), Mul(x[2], y[1]))>>
CScale(r, x) == <<Mul(r, x[1]), Mul(r, x[2])>>
CAbs2(x) == Add(Mul(x[1], x[1]), Mul(x[2], x[2]))
CDiv(x, y) ==
    LET d == CAbs2(y)
        n == CMul(x, <<y[1], Neg(y[2])>>)
    IN  <<Div(n[1], d), Div(n[2], d)>>
COne == <<One, Zero>>

\* exp(-j*w) for w = 2*pi*t
ExpMinusJ(t) == <<NpCos(t), Neg(NpSin(t))>>

PolyVal(c, zm1) ==
    CAdd(CAdd(<<c[1], Zero>>, CScale(c[2], zm1)), CScale(c[3], CMul(zm1, zm1)))

freqz(b, a, t) ==
    LET zm1 == ExpMinusJ(t)
    IN  CDiv(PolyVal(b, zm1), PolyVal(a, zm1))

----------------------------------------------------------------------------
(* PEQ text.  A line is carried as its fields; a numeric field records     *)
(* whether its text is present and the value float() gives for it.         *)

Fld(v) == [has |-> TRUE, v |-> v]
NoFld  == [has |-> FALSE, v |-> Zero]

\* "Preamp: <v> dB"; ok is FALSE when the number is not of the form the
\* pattern accepts (for instance "Preamp: loud")
PreampLine(ok, v) ==
    [kind |-> "Preamp", ok |-> ok, val |-> v, status |-> "", type |-> "",
     fc |-> NoFld, gain |-> NoFld, q |-> NoFld]

PostampLine(ok, v) ==
    [kind |-> "Postamp", ok |-> ok, val |-> v, status |-> "", type |-> "",
     fc |-> NoFld, gain |-> NoFld, q |-> NoFld]

\* "Filter <n>: <status> <type> Fc <fc> Hz Gain <gain> dB Q <q>"
FilterLine(status, type, fc, gain, q) ==
    [kind |-> "Filter", ok |-> TRUE, val |-> Zero, status |-> status,
     type |-> type, fc |-> fc, gain |-> gain, q |-> q]

\* the inputs of the gain-analysis program
GainLines ==
    { PreampLine(TRUE, R(-11, 2)),
      PreampLine(TRUE, Zero),
      PreampLine(FALSE, R(3, 1)),
      PostampLine(TRUE, R(21, 2)),
      FilterLine("ON",  "PK",  Fld(R(12000, 1)), Fld(Zero),        Fld(One)),
      FilterLine("ON",  "PK",  Fld(R(12000, 1)), Fld(R(301, 25)),  Fld(One)),
      FilterLine("ON",  "LSC", Fld(R(12000, 1)), Fld(R(-602, 25)), Fld(R(17, 9))),
      FilterLine("ON",  "PK",  Fld(R(36000, 1)), Fld(Zero),        Fld(R(1, 2))),
      FilterLine("ON",  "LS",  Fld(R(36000, 1)), Fld(Zero),        Fld(R(1, 2))),
      FilterLine("ON",  "HS",  Fld(R(36000, 1)), Fld(Zero),        Fld(R(1, 2))),
      FilterLine("ON",  "LS",  Fld(R(12000, 1)), Fld(Zero),        NoFld),
      FilterLine("ON",  "PK",  Fld(R(12000, 1)), Fld(Zero),        NoFld),
      FilterLine("OFF", "PK",  Fld(R(12000, 1)), Fld(R(301, 25)),  Fld(One)),
      FilterLine("ON",  "XX",  Fld(R(12000, 1)), Fld(Zero),        Fld(One)) }

\* the inputs of the configuration generator
WireLines ==
    { FilterLine("ON",  "PK", Fld(R(12000, 1)), Fld(R(602, 25)),  Fld(One)),
      FilterLine("ON",  "LS", Fld(R(125, 2)),   Fld(R(-11, 2)),   Fld(R(17, 25))),
      FilterLine("ON",  "HP", Fld(R(24000, 1)), Fld(Zero),        Fld(One)),
      FilterLine("ON",  "PK", Fld(R(36000, 1)), Fld(Zero),        Fld(R(1, 2))),
      FilterLine("ON",  "XX", Fld(R(12000, 1)), Fld(Zero),        Fld(One)),
      FilterLine("ON",  "PK", Fld(R(12000, 1)), Fld(Zero),        NoFld),
      FilterLine("OFF", "PK", Fld(R(12000, 1)), Fld(R(602, 25)),  Fld(One)) }

\* the line repeated to fill a long file
Filler == FilterLine("ON", "PK", Fld(R(12000, 1)), Fld(R(602, 25)), Fld(One))

\* the first "Preamp: <v> dB" of the text, if any
WirePreamps == { NoFld, Fld(R(-11, 2)) }

\* the grid frequencies (Hz) the response is evaluated at
freqs == <<R(12000, 1), R(24000, 1)>>

MaxLines == 3
MaxFree  == 2
MaxDb    == 2

----------------------------------------------------------------------------
VARIABLES
    prog,          \* "gain" (peq-gain.py) or "wire" (peqwire.py)
    pc,            \* position of the run
    file,          \* the lines consumed so far, in file order
    error,         \* "" or the reason of the non-zero exit
    preamp_db, postamp_db, bands,     \* parse_peq_file of peq-gain.py
    designs,       \* the (a0, b, a) designed for bands[1..Len(designs)]
    H_total,       \* complex response per grid point, <<>> before it exists
    G_total_db,    \* dB curve, <<>> before it exists
    staging,       \* the gain-staging values, <<>> before they exist
    which, wpre, nodes                \* parse_peq_file of peqwire.py

vars == <<prog, pc, file, error, preamp_db, postamp_db, bands, designs,
          H_total, G_total_db, staging, which, wpre, nodes>>

gainVars == <<preamp_db, postamp_db, bands, designs, H_total, G_total_db, staging>>
wireVars == <<which, wpre, nodes>>

Init ==
    /\ prog \in {"gain", "wire"}
    /\ pc = IF prog = "gain" THEN "parse" ELSE "preamp"
    /\ file = <<>>
    /\ error = ""
    /\ preamp_db = Zero
    /\ postamp_db = Zero
    /\ bands = <<>>
    /\ designs = <<>>
    /\ H_total = <<>>
    /\ G_total_db = <<>>
    /\ staging = <<>>
    /\ which \in (IF prog = "wire" THEN {"Left", "Right"} ELSE {""})
    /\ wpre \in (IF prog = "wire" THEN WirePreamps ELSE {NoFld})
    /\ nodes = <<>>

----------------------------------------------------------------------------
(* peq-gain.py: parse_peq_file *)

filter_type_map ==
    [LSC |-> "low_shelf", LS |-> "low_shelf", HSC |-> "high_shelf",
     HS |-> "high_shelf", PK |-> "peaking"]

\* the tuple appended for a line: (type, fc, gain_db, Q)
Band(line) ==
    [ftype |-> filter_type_map[line.type], fc |-> line.fc.v,
     gain_db |-> line.gain.v, Q |-> line.q.v]

\* GainFilterLine without the status test of lines 101-103
GainFilterLine_NoStatusTest(line, bs) ==
    IF line.type \notin DOMAIN filter_type_map THEN [bands |-> bs, raised |-> FALSE]
    ELSE IF ~line.fc.has THEN [bands |-> bs, raised |-> FALSE]
    ELSE IF ~line.gain.has THEN [bands |-> bs, raised |-> FALSE]
    ELSE IF line.q.has THEN [bands |-> Append(bs, Band(line)), raised |-> FALSE]
    ELSE [bands |-> bs, raised |-> TRUE]

\* What one Filter line does to the band list.  raised: an exception left
\* the loop body (the branch for a missing Q reads raw_type, a name that is
\* bound nowhere, so reaching it raises NameError).
GainFilterLine(line, bs) ==
    IF line.status # "ON" THEN [bands |-> bs, raised |-> FALSE]
    ELSE IF line.type \notin DOMAIN filter_type_map THEN [bands |-> bs, raised |-> FALSE]
    ELSE IF ~line.fc.has THEN [bands |-> bs, raised |-> FALSE]
    ELSE IF ~line.gain.has THEN [bands |-> bs, raised |-> FALSE]
    ELSE IF line.q.has THEN [bands |-> Append(bs, Band(line)), raised |-> FALSE]
    ELSE [bands |-> bs, raised |-> TRUE]

\* one iteration of "for line in f" (lines 83-145), with the except clause
\* of lines 150-152 when the body raises
GainReadLine(line) ==
    /\ prog = "gain" /\ pc = "parse"
    /\ Len(file) < MaxLines
    /\ file' = Append(file, line)
    /\ preamp_db' = IF line.kind = "Preamp" /\ line.ok THEN line.val ELSE preamp_db
    /\ postamp_db' = IF line.kind = "Postamp" /\ line.ok THEN line.val ELSE postamp_db
    /\ LET r == IF line.kind = "Filter" THEN GainFilterLine(line, bands)
                ELSE [bands |-> bands, raised |-> FALSE]
       IN  /\ bands' = r.bands
           /\ pc' = IF r.raised THEN "exit" ELSE "parse"
           /\ error' = IF r.raised THEN "parse_error" ELSE error
    /\ UNCHANGED <<prog, designs, H_total, G_total_db, staging, wireVars>>

\* end of file: parse_peq_file returns (line 154)
GainParseReturn ==
    /\ prog = "gain" /\ pc = "parse"
    /\ pc' = "main"
    /\ UNCHANGED <<prog, file, error, gainVars, wireVars>>

----------------------------------------------------------------------------
(* peq-gain.py: main script *)

\* NoBands with the test of line 172 never taken
NoBands_Never(bs) == FALSE

\* lines 172-174
NoBands(bs) == bs = <<>>

GainCheckBands ==
    /\ prog = "gain" /\ pc = "main"
    /\ IF NoBands(bands)
       THEN /\ pc' = "exit"
            /\ error' = "no_filters"
            /\ UNCHANGED H_total
       ELSE /\ pc' = "cascade"
            /\ error' = error
            /\ H_total' = [i \in 1..Len(freqs) |-> COne]
    /\ UNCHANGED <<prog, file, preamp_db, postamp_db, bands, designs,
                   G_total_db, staging, wireVars>>

\* one iteration of the loop of lines 205-216: design, freqz, H_total *= h
CascadeStep(H, band) ==
    LET d == Design(band)
    IN  [i \in 1..Len(freqs) |-> CMul(H[i], freqz(d.b, d.a, Turn(freqs[i], fs)))]

GainCascadeBand ==
    /\ prog = "gain" /\ pc = "cascade"
    /\ Len(designs) < Len(bands)
    /\ LET band == bands[Len(designs) + 1]
       IN  /\ designs' = Append(designs, Design(band))
           /\ H_total' = CascadeStep(H_total, band)
    /\ UNCHANGED <<prog, pc, file, error, preamp_db, postamp_db, bands,
                   G_total_db, staging, wireVars>>

\* 20 * log10(abs(h)).  The logarithm is not computed: its sign and its
\* special values are, and the magnitude of a finite non-zero result is any
\* multiple of 0.1 dB up to MaxDb tenths.
DbOf(h) ==
    LET m2 == CAbs2(h)
    IN  IF IsNaN(m2) THEN {NaN}
        ELSE IF m2 = PosInf THEN {PosInf}
        ELSE IF m2 = Zero THEN {NegInf}
        ELSE IF m2 = One THEN {Zero}
        ELSE IF Lt(One, m2) THEN {R(k, 10) : k \in 1..MaxDb}
        ELSE {R(-k, 10) : k \in 1..MaxDb}

\* line 218
GainResponseDb ==
    /\ prog = "gain" /\ pc = "cascade"
    /\ Len(designs) = Len(bands)
    /\ G_total_db' \in [1..Len(freqs) -> UNION {DbOf(H_total[i]) : i \in 1..Len(freqs)}]
    /\ \A i \in 1..Len(freqs) : G_total_db'[i] \in DbOf(H_total[i])
    /\ pc' = "staging"
    /\ UNCHANGED <<prog, file, error, preamp_db, postamp_db, bands, designs,
                   H_total, staging, wireVars>>

\* np.max / np.min: NaN as soon as one element is NaN
RECURSIVE NpMax(_)
NpMax(c) ==
    IF Len(c) = 1 THEN c[1]
    ELSE LET m == NpMax(Tail(c))
         IN  IF IsNaN(c[1]) \/ IsNaN(m) THEN NaN
             ELSE IF Lt(m, c[1]) THEN c[1] ELSE m

RECURSIVE NpMin(_)
NpMin(c) ==
    IF Len(c) = 1 THEN c[1]
    ELSE LET m == NpMin(Tail(c))
         IN  IF IsNaN(c[1]) \/ IsNaN(m) THEN NaN
             ELSE IF Lt(c[1], m) THEN c[1] ELSE m

\* line 223
CalculatedPreAtten(max_gain_db) == Add(max_gain_db, R(1, 10))

\* PreAtten without the abs() of line 228
PreAtten_NoAbs(preamp, calculated) ==
    IF preamp # Zero THEN preamp ELSE calculated

\* lines 226-231
PreAtten(preamp, calculated) ==
    IF preamp # Zero THEN FAbs(preamp) ELSE calculated

\* SafePostGain with the operands of line 235 exchanged
SafePostGain_Swapped(max_gain_db, min_gain_db) == Sub(min_gain_db, max_gain_db)

\* line 235
SafePostGain(max_gain_db, min_gain_db) == Sub(max_gain_db, min_gain_db)

\* lines 238-242
ActualPostGain(postamp, safe) ==
    IF postamp # Zero THEN postamp ELSE safe

\* lines 219-242
Analyze(curve, preamp, postamp) ==
    LET mx   == NpMax(curve)
        mn   == NpMin(curve)
        calc == CalculatedPreAtten(mx)
        safe == SafePostGain(mx, mn)
    IN  [max_gain_db |-> mx, min_gain_db |-> mn,
         calculated_pre_atten_db |-> calc,
         pre_atten_db |-> PreAtten(preamp, calc),
         safe_post_gain_db |-> safe,
         actual_post_gain |-> ActualPostGain(postamp, safe)]

GainStaging ==
    /\ prog = "gain" /\ pc = "staging"
    /\ staging' = Analyze(G_total_db, preamp_db, postamp_db)
    /\ pc' = "done"
    /\ UNCHANGED <<prog, file, error, preamp_db, postamp_db, bands, designs,
                   H_total, G_total_db, wireVars>>

GainNext ==
    \/ \E line \in GainLines : GainReadLine(line)
    \/ GainParseReturn
    \/ GainCheckBands
    \/ GainCascadeBand
    \/ GainResponseDb
    \/ GainStaging

----------------------------------------------------------------------------
(* peqwire.py *)

MAX_FILTERS == 32
FREQ_MIN == 0
FREQ_MAX == 24000

EQF_BELL == 1
EQF_HIPASS == 2
EQF_HISHELF == 3
EQF_LOPASS == 4
EQF_LOSHELF == 5
EQF_NOTCH == 6
EQF_ALLPASS == 8
EQF_BANDPASS == 9

PEQ_TO_LSP_FILTER ==
    ("LP" :> EQF_LOPASS) @@ ("LPQ" :> EQF_LOPASS) @@ ("HP" :> EQF_HIPASS) @@
    ("HPQ" :> EQF_HIPASS) @@ ("LSC" :> EQF_LOSHELF) @@ ("LS" :> EQF_LOSHELF) @@
    ("HSC" :> EQF_HISHELF) @@ ("HS" :> EQF_HISHELF) @@ ("PK" :> EQF_BELL) @@
    ("MODAL" :> EQF_BELL) @@ ("PEQ" :> EQF_BELL) @@ ("BP" :> EQF_BANDPASS) @@
    ("LS 6DB" :> EQF_LOSHELF) @@ ("HS 6DB" :> EQF_LOSHELF) @@
    ("LS 12DB" :> EQF_LOSHELF) @@ ("HS 12DB" :> EQF_LOSHELF) @@
    ("NO" :> EQF_NOTCH) @@ ("AP" :> EQF_ALLPASS)

vol_dB_to_linear(dB) == Pow10(Div(dB, R(20, 1)))

\* Python round() of a non-negative number: to the nearest integer, a tie
\* to the even one
Round(x) ==
    LET fl == x[1] \div x[2]
        r2 == 2 * (x[1] % x[2])
    IN  IF r2 < x[2] THEN fl
        ELSE IF r2 > x[2] THEN fl + 1
        ELSE IF fl % 2 = 0 THEN fl ELSE fl + 1

\* one control entry: the key "<name> <which> <n>" and its value
Ctl(w, n, v) == [which |-> w, idx |-> n, value |-> v]

\* the index every key of a node built on the list ns carries: len(nodes)
NodeIndex(ns) == Len(ns)

Node(w, n, type, freq, gain, q) ==
    [Filter_type    |-> Ctl(w, n, R(type, 1)),
     Filter_mode    |-> Ctl(w, n, Zero),
     Filter_slope   |-> Ctl(w, n, Zero),
     Frequency      |-> Ctl(w, n, R(freq, 1)),
     Filter_Width   |-> Ctl(w, n, R(6, 1)),
     Gain           |-> Ctl(w, n, gain),
     Quality_factor |-> Ctl(w, n, q),
     Hue            |-> Ctl(w, n, Zero)]

\* lines 128, 136-145
PreampNode(w, ns, gain) ==
    Node(w, NodeIndex(ns), EQF_HISHELF, 0, vol_dB_to_linear(gain), One)

\* lines 180-189
FilterNode(w, ns, line) ==
    Node(w, NodeIndex(ns), PEQ_TO_LSP_FILTER[line.type], Round(line.fc.v),
         vol_dB_to_linear(line.gain.v), line.q.v)

\* filter_pattern (line 124): Fc and Q are unsigned, all fields are required
WireMatch(line) ==
    /\ line.kind = "Filter"
    /\ line.status \in {"ON", "OFF"}
    /\ line.fc.has /\ ~Lt(line.fc.v, Zero)
    /\ line.gain.has
    /\ line.q.has /\ ~Lt(line.q.v, Zero)

\* Full with the comparison of line 151 off by one
Full_OffByOne(ns) == Len(ns) = MAX_FILTERS + 1

\* line 151
Full(ns) == Len(ns) = MAX_FILTERS

\* line 171
BadFrequency(f) == Lt(R(FREQ_MAX, 1), f) \/ Lt(f, R(FREQ_MIN, 1))

\* What one line of the text does (lines 150-190): out is "continue",
\* "return" (the list is full) or "raise" (ValueError)
WireFilterLine(line, ns, w) ==
    IF ~WireMatch(line) THEN [nodes |-> ns, out |-> "continue"]
    ELSE IF Full(ns) THEN [nodes |-> ns, out |-> "return"]
    ELSE IF line.status = "OFF" THEN [nodes |-> ns, out |-> "continue"]
    ELSE IF line.type \notin DOMAIN PEQ_TO_LSP_FILTER THEN [nodes |-> ns, out |-> "raise"]
    ELSE IF BadFrequency(line.fc.v) THEN [nodes |-> ns, out |-> "raise"]
    ELSE [nodes |-> Append(ns, FilterNode(w, ns, line)), out |-> "continue"]

\* lines 127-147
WirePreamp ==
    /\ prog = "wire" /\ pc = "preamp"
    /\ IF wpre.has
       THEN IF Full(nodes)
            THEN pc' = "returned" /\ nodes' = nodes
            ELSE pc' = "filters" /\ nodes' = Append(nodes, PreampNode(which, nodes, wpre.v))
       ELSE pc' = "filters" /\ nodes' = nodes
    /\ UNCHANGED <<prog, file, error, gainVars, which, wpre>>

\* the files explored: MaxFree arbitrary lines, then copies of Filler, then
\* arbitrary lines again once the list is full
MaxWireLines == MaxFree + MAX_FILTERS + 1

WireReadLine(line) ==
    /\ prog = "wire" /\ pc = "filters"
    /\ Len(file) < MaxWireLines
    /\ Len(file) < MaxFree \/ line = Filler \/ Full(nodes)
    /\ file' = Append(file, line)
    /\ LET r == WireFilterLine(line, nodes, which)
       IN  /\ nodes' = r.nodes
           /\ pc' = CASE r.out = "continue" -> "filters"
                      [] r.out = "return"   -> "returned"
                      [] r.out = "raise"    -> "exit"
           /\ error' = IF r.out = "raise" THEN "ValueError" ELSE error
    /\ UNCHANGED <<prog, gainVars, which, wpre>>

\* the text is exhausted: line 192
WireReturn ==
    /\ prog = "wire" /\ pc = "filters"
    /\ pc' = "returned"
    /\ UNCHANGED <<prog, file, error, gainVars, wireVars>>

WireNext ==
    \/ WirePreamp
    \/ \E line \in WireLines : WireReadLine(line)
    \/ WireReturn

Next == GainNext \/ WireNext

Spec == Init /\ [][Next]_vars

----------------------------------------------------------------------------
(* Properties *)

Nyquist == R(fs \div 2, 1)

IsOn(line) == line.kind = "Filter" /\ line.status = "ON"

Lines(f) == {f[i] : i \in 1..Len(f)}

Last(q) == q[Len(q)]

ShelfTypes == {"LS", "LSC", "HS", "HSC"}

\* an ON Filter line with a known type, an Fc and a Gain, and no Q
MissingQ(line) ==
    /\ IsOn(line)
    /\ line.type \in ShelfTypes \cup {"PK"}
    /\ line.fc.has /\ line.gain.has /\ ~line.q.has

\* C1: in peq-gain.py an ON Filter line with a known type, an Fc and a Gain
\* but no Q never aborts the run: after it is read the run has not exited
\* with a parse error, a shelf has been appended with Q = 0.707 and a PK
\* line has appended nothing.
C1_MissingQNeverAborts ==
    (prog = "gain" /\ file # <<>> /\ MissingQ(Last(file))) =>
        /\ error # "parse_error"
        /\ Last(file).type \in ShelfTypes =>
              bands # <<>> /\ Last(bands).Q = R(707, 1000)
                           /\ Last(bands).fc = Last(file).fc.v

\* an ON Filter line whose type token is no type peq-gain.py knows
UnknownOn(line) ==
    IsOn(line) /\ line.type \notin ShelfTypes \cup {"PK"}

\* C2: a run of peq-gain.py on a file with an ON Filter line of unknown
\* type computes no response and no gain staging, whatever else the file
\* holds.
C2_UnknownTypeAborts ==
    (prog = "gain" /\ \E l \in Lines(file) : UnknownOn(l)) =>
        /\ pc \notin {"cascade", "staging", "done"}
        /\ H_total = <<>> /\ G_total_db = <<>> /\ staging = <<>>

Min(a, b) == IF a < b THEN a ELSE b

\* the kind a type token stands for
KindOf(type) ==
    CASE type \in {"LS", "LSC"} -> "low_shelf"
      [] type \in {"HS", "HSC"} -> "high_shelf"
      [] type = "PK"            -> "peaking"

GainWellFormed(l) ==
    /\ l.kind = "Filter" /\ l.status \in {"ON", "OFF"}
    /\ l.type \in ShelfTypes \cup {"PK"}
    /\ l.fc.has /\ l.gain.has /\ l.q.has

WireTypes ==
    {"LP", "LPQ", "HP", "HPQ", "LSC", "LS", "HSC", "HS", "PK", "MODAL", "PEQ",
     "BP", "LS 6DB", "HS 6DB", "LS 12DB", "HS 12DB", "NO", "AP"}

WireWellFormed(l) ==
    /\ l.kind = "Filter" /\ l.status \in {"ON", "OFF"}
    /\ l.type \in WireTypes
    /\ l.fc.has /\ l.gain.has /\ l.q.has
    /\ Le(Zero, l.fc.v) /\ Le(l.fc.v, R(24000, 1)) /\ Le(Zero, l.q.v)

OnLines(f) == SelectSeq(f, IsOn)

\* the band list the ON lines of f stand for, in file order
ExpectedBands(f) ==
    [j \in 1..Len(OnLines(f)) |->
        [ftype |-> KindOf(OnLines(f)[j].type), fc |-> OnLines(f)[j].fc.v,
         gain_db |-> OnLines(f)[j].gain.v, Q |-> OnLines(f)[j].q.v]]

\* the node nd was built from the line l
NodeOf(nd, l) ==
    /\ nd.Frequency.value = R(Round(l.fc.v), 1)
    /\ nd.Quality_factor.value = l.q.v
    /\ nd.Gain.value = vol_dB_to_linear(l.gain.v)

PreampCount == IF wpre.has THEN 1 ELSE 0

\* the first n ON lines of the file, and nothing else, follow the preamp node
WireNodesAre(n) ==
    /\ Len(nodes) = PreampCount + n
    /\ \A j \in 1..n : NodeOf(nodes[PreampCount + j], OnLines(file)[j])

\* C3 (as amended): for a file of well-formed Filter lines with known
\* types, the band list of peq-gain.py is exactly the ON lines in file
\* order; the filter nodes of peqwire.py are the ON lines in file order up
\* to the room MAX_FILTERS leaves after the preamp node.
C3_OnSubsequence ==
    /\ (prog = "gain" /\ \A l \in Lines(file) : GainWellFormed(l)) =>
           bands = ExpectedBands(file)
    /\ (prog = "wire" /\ pc # "preamp" /\ \A l \in Lines(file) : WireWellFormed(l)) =>
           WireNodesAre(Min(Len(OnLines(file)), MAX_FILTERS - PreampCount))

\* C3 (as claimed): the list returned by either parse_peq_file is exactly
\* the ON lines of the file, in file order.
C3_ExactSubsequence ==
    /\ (prog = "gain" /\ \A l \in Lines(file) : GainWellFormed(l)) =>
           bands = ExpectedBands(file)
    /\ (prog = "wire" /\ pc # "preamp" /\ \A l \in Lines(file) : WireWellFormed(l)) =>
           WireNodesAre(Len(OnLines(file)))

\* an OFF line between two different ON lines, all three parsed
C3_Witness ==
    /\ prog = "gain" /\ Len(file) = 3 /\ \A l \in Lines(file) : GainWellFormed(l)
    /\ file[1].status = "ON" /\ file[2].status = "OFF" /\ file[3].status = "ON"
    /\ file[1] # file[3]
    /\ Len(bands) = 2

\* C4: peq-gain.py goes on to the response and the gain staging only with a
\* non-empty band list; the exit "no enabled filters" is taken only with an
\* empty one, and then no grid response, curve or staging value exists.
C4_EmptyBandsExit ==
    prog = "gain" =>
        /\ pc \in {"cascade", "staging", "done"} => bands # <<>>
        /\ error = "no_filters" =>
              /\ pc = "exit" /\ bands = <<>>
              /\ H_total = <<>> /\ G_total_db = <<>> /\ staging = <<>>
        /\ (H_total # <<>> \/ G_total_db # <<>> \/ staging # <<>>) => bands # <<>>

\* the exit taken on a file that holds only OFF or skipped lines
C4_Witness ==
    /\ prog = "gain" /\ pc = "exit" /\ error = "no_filters"
    /\ \E l \in Lines(file) : l.kind = "Filter" /\ l.status = "OFF"
    /\ \E l \in Lines(file) : UnknownOn(l)

\* the value the last matching Preamp line of the file gives, 0 without one
RECURSIVE ParsedPreamp(_)
ParsedPreamp(f) ==
    IF f = <<>> THEN Zero
    ELSE IF Last(f).kind = "Preamp" /\ Last(f).ok THEN Last(f).val
    ELSE ParsedPreamp(SubSeq(f, 1, Len(f) - 1))

\* C5: the effective pre-attenuation is abs(p) for a non-zero parsed preamp
\* p, and maxGainDb + 0.1 when p is zero or absent; with a non-zero p it is
\* greater than 0.
C5_EffectivePreAtten ==
    (prog = "gain" /\ staging # <<>>) =>
        LET p == ParsedPreamp(file)
        IN  /\ preamp_db = p
            /\ p # Zero => /\ staging.pre_atten_db = (IF Lt(p, Zero) THEN Neg(p) ELSE p)
                           /\ Lt(Zero, staging.pre_atten_db)
            /\ p = Zero => staging.pre_atten_db = Add(staging.max_gain_db, R(1, 10))

\* a negative override used while the curve's maximum is another value
C5_Witness ==
    /\ prog = "gain" /\ staging # <<>>
    /\ Lt(preamp_db, Zero)
    /\ staging.pre_atten_db = Neg(preamp_db)
    /\ staging.calculated_pre_atten_db # staging.pre_atten_db

Numeric(curve) == \A i \in 1..Len(curve) : ~IsNaN(curve[i])

\* C6: for a curve of dB values, maxGainDb and minGainDb are its largest and
\* smallest points, calculatedPreAttenDb = maxGainDb + 0.1 and
\* safePostGainDb = maxGainDb - minGainDb >= 0, whatever the overrides.
C6_GainStaging ==
    (prog = "gain" /\ staging # <<>> /\ Numeric(G_total_db)) =>
        /\ G_total_db # <<>>
        /\ \E i \in 1..Len(G_total_db) : staging.max_gain_db = G_total_db[i]
        /\ \A i \in 1..Len(G_total_db) : Le(G_total_db[i], staging.max_gain_db)
        /\ \E i \in 1..Len(G_total_db) : staging.min_gain_db = G_total_db[i]
        /\ \A i \in 1..Len(G_total_db) : Le(staging.min_gain_db, G_total_db[i])
        /\ staging.calculated_pre_atten_db = Add(staging.max_gain_db, R(1, 10))
        /\ staging.safe_post_gain_db = Sub(staging.max_gain_db, staging.min_gain_db)
        /\ Le(Zero, staging.safe_post_gain_db)

\* a curve that is not flat, analysed with both overrides present
C6_Witness ==
    /\ prog = "gain" /\ staging # <<>> /\ Numeric(G_total_db)
    /\ Lt(staging.min_gain_db, staging.max_gain_db)
    /\ Lt(Zero, staging.safe_post_gain_db)
    /\ preamp_db # Zero /\ postamp_db # Zero

\* C7: no design function returns coefficients when its unnormalized a0 is
\* 0: the division by a0 is never made with a0 = 0.
C7_NoDivisionByZeroA0 ==
    \A i \in 1..Len(designs) : designs[i].a0 # Zero

InRange(f) == Lt(Zero, f) /\ Lt(f, Nyquist)

\* C8: no band with fc outside 0 < fc < Nyquist is in the band list, has
\* been designed, or is a filter node of the configuration.
C8_NoOutOfRangeBand ==
    /\ \A i \in 1..Len(bands) : InRange(bands[i].fc)
    /\ \A i \in (PreampCount + 1)..Len(nodes) : InRange(nodes[i].Frequency.value)

\* C9: a Peaking band with gain 0 dB and Q > 0 is designed with b equal to
\* a coefficient by coefficient and b0 = a0 = 1, and when it is the only
\* band the response has magnitude 1 at every grid frequency.
C9_ZeroGainPeakingIsIdentity ==
    \A i \in 1..Len(designs) :
        (bands[i].ftype = "peaking" /\ bands[i].gain_db = Zero /\ Lt(Zero, bands[i].Q)) =>
            /\ designs[i].b = designs[i].a
            /\ designs[i].b[1] = One
            /\ Len(bands) = 1 => \A g \in 1..Len(H_total) : CAbs2(H_total[g]) = One

NodeKeys(nd) ==
    {nd.Filter_type, nd.Filter_mode, nd.Filter_slope, nd.Frequency,
     nd.Filter_Width, nd.Gain, nd.Quality_factor, nd.Hue}

\* C10: the node list of peqwire.py never holds more than MAX_FILTERS
\* nodes, every key of the node at position i carries the index i (counted
\* from 0), and the preamp node, when the text has a Preamp, is the node of
\* index 0.
C10_NodeIndices ==
    prog = "wire" =>
        /\ Len(nodes) <= 32
        /\ \A i \in 1..Len(nodes) : \A k \in NodeKeys(nodes[i]) :
               k.idx = i - 1 /\ k.which = which
        /\ (wpre.has /\ pc # "preamp") =>
               /\ nodes # <<>>
               /\ nodes[1].Frequency = Ctl(which, 0, Zero)
               /\ nodes[1].Filter_type.value = R(3, 1)
               /\ nodes[1].Gain.value = vol_dB_to_linear(wpre.v)
        /\ (~wpre.has /\ nodes # <<>>) => nodes[1].Frequency.value # Zero

\* a full list returned for a text with a Preamp and an OFF line
C10_Witness ==
    /\ prog = "wire" /\ pc = "returned" /\ wpre.has
    /\ Len(nodes) = 32
    /\ \E l \in Lines(file) : l.status = "OFF"
    /\ Len(file) > Len(nodes)

====
